---- MODULE Spec2Model ----
(***************************************************************************)
(* ConnectFourAreaController: the client-side controller of a Connect Four *)
(* game area.  It holds the last snapshot received from the server         *)
(* (_model), the board rebuilt from that snapshot's move log (_board),     *)
(* emits boardChanged / turnChanged when a snapshot is applied, and sends  *)
(* StartGame / GameMove commands after checking them against the held      *)
(* state.                                                                  *)
(***************************************************************************)
EXTENDS Integers, Sequences, FiniteSets

\* ------------------------------------------------------------------ bounds
\* Longest move log of a snapshot under Spec (moves of any row and piece).
MaxMoves == 2
\* Longest move log of a snapshot under SpecTurn (a drop-style game).
MaxTurnMoves == 3
\* Longest move log of a snapshot under SpecColumn (one column filled up).
MaxStack == 6

\* --------------------------------------------------------------- constants
CONNECT_FOUR_ROWS == 6
CONNECT_FOUR_COLS == 7
COLUMN_FULL_MESSAGE == "The column is full"
NO_GAME_IN_PROGRESS_ERROR == "No game in progress"
NO_GAME_STARTABLE == "NO_GAME_STARTABLE"
PLAYER_NOT_IN_GAME_ERROR == "PLAYER_NOT_IN_GAME_ERROR"

\* undefined
None == "undefined"

Rows == 0 .. (CONNECT_FOUR_ROWS - 1)
Cols == 0 .. (CONNECT_FOUR_COLS - 1)
ConnectFourColor == {"Red", "Yellow"}
ConnectFourCell == ConnectFourColor \cup {None}
GameStatus == {"WAITING_FOR_PLAYERS", "WAITING_TO_START", "IN_PROGRESS", "OVER"}

\* this._townController.ourPlayer.id, and the other player of the town
OurPlayer == "p1"
OtherPlayer == "p2"
PlayerIDs == {OurPlayer, OtherPlayer}

\* A move of the log: {row, col, gamePiece}
Moves == [row : Rows, col : Cols, gamePiece : ConnectFourColor]

\* GameArea<ConnectFourGameState> without a game (game === undefined)
NoGame ==
  [present |-> FALSE, id |-> None, status |-> None, red |-> None,
   yellow |-> None, firstPlayer |-> None, moves |-> << >>]

\* GameArea<ConnectFourGameState> with a game instance and its state
Game(id, status, red, yellow, firstPlayer, moves) ==
  [present |-> TRUE, id |-> id, status |-> status, red |-> red,
   yellow |-> yellow, firstPlayer |-> firstPlayer, moves |-> moves]

VARIABLES
  model,       \* this._model: the snapshot applied last
  occupants,   \* this.occupants: ids of the players in the area
  instanceID,  \* this._instanceID
  board,       \* this._board
  lastOp,      \* the operation that ran last
  arg,         \* the column makeMove was called with, when it ran last
  emitted,     \* events emitted by the operation that ran last, in order
  sent,        \* commands sent by the operation that ran last, in order
  err,         \* error thrown by the operation that ran last, or None
  observed,    \* what a listener reads from the controller at each emission
  lastTurn     \* payload of the turnChanged emitted last, << >> if none yet

vars ==
  <<model, occupants, instanceID, board, lastOp, arg, emitted, sent, err,
    observed, lastTurn>>

\* ------------------------------------------------------------ board model
EmptyBoard == [r \in Rows |-> [c \in Cols |-> None]]

\* moves.forEach(move => newBoard[move.row][move.col] = move.gamePiece)
RECURSIVE ForEachMove(_, _)
ForEachMove(b, moves) ==
  IF moves = << >> THEN b
  ELSE LET move == Head(moves)
       IN ForEachMove([b EXCEPT ![move.row][move.col] = move.gamePiece],
                      Tail(moves))

\* Fault model: a rebuild in which a move never overwrites an occupied cell
RECURSIVE ForEachMoveFirstWins(_, _)
ForEachMoveFirstWins(b, moves) ==
  IF moves = << >> THEN b
  ELSE LET move == Head(moves)
       IN ForEachMoveFirstWins(
            IF b[move.row][move.col] = None
              THEN [b EXCEPT ![move.row][move.col] = move.gamePiece]
              ELSE b,
            Tail(moves))

NewBoardFirstWins(moves) == ForEachMoveFirstWins(EmptyBoard, moves)

NewBoard(moves) == ForEachMove(EmptyBoard, moves)

\* Fault model: a comparison of references (the rebuilt array is always new)
IsEqualByReference(a, b) == FALSE

\* Fault model: a comparison that looks at the bottom row only
IsEqualBottomRow(a, b) == \A c \in Cols : a[5][c] = b[5][c]

\* _.isEqual on two 6x7 arrays: cell by cell
IsEqual(a, b) == \A r \in Rows : \A c \in Cols : a[r][c] = b[r][c]

\* -------------------------------------------------------------- accessors
\* Fault model: red() returning the identifier without looking up the occupants
RedUnresolved(m, occ) ==
  IF m.present /\ m.red # None THEN m.red ELSE None

\* get red(): the occupant whose id is the game's red, if any
Red(m, occ) ==
  IF m.present /\ m.red # None /\ m.red \in occ THEN m.red ELSE None

\* get yellow()
Yellow(m, occ) ==
  IF m.present /\ m.yellow # None /\ m.yellow \in occ THEN m.yellow ELSE None

\* get moveCount()
MoveCount(m) == IF m.present THEN Len(m.moves) ELSE 0

\* Fault model: status() reporting a finished game as waiting for players
StatusCleanup(m) ==
  IF ~m.present \/ m.status = None \/ m.status = "OVER"
    THEN "WAITING_FOR_PLAYERS"
    ELSE m.status

\* get status()
Status(m) ==
  IF ~m.present \/ m.status = None THEN "WAITING_FOR_PLAYERS" ELSE m.status

\* Fault model: whoseTurn() taking Red as first player when none is recorded
WhoseTurnDefaultRed(m, occ) ==
  LET red == Red(m, occ)
      yellow == Yellow(m, occ)
  IN IF red = None \/ yellow = None \/ ~m.present \/ m.status # "IN_PROGRESS"
       THEN None
     ELSE IF m.firstPlayer = "Yellow"
       THEN (IF MoveCount(m) % 2 = 0 THEN yellow ELSE red)
     ELSE (IF MoveCount(m) % 2 = 0 THEN red ELSE yellow)

\* Fault model: whoseTurn() that ignores firstPlayer: Red always moves first
WhoseTurnRedFirst(m, occ) ==
  LET red == Red(m, occ)
      yellow == Yellow(m, occ)
  IN IF red = None \/ yellow = None \/ ~m.present \/ m.status # "IN_PROGRESS"
       THEN None
     ELSE IF m.firstPlayer \in {"Red", "Yellow"}
       THEN (IF MoveCount(m) % 2 = 0 THEN red ELSE yellow)
     ELSE None

\* get whoseTurn(): a player id, or None
WhoseTurn(m, occ) ==
  LET red == Red(m, occ)
      yellow == Yellow(m, occ)
  IN IF red = None \/ yellow = None \/ ~m.present \/ m.status # "IN_PROGRESS"
       THEN None
     ELSE IF m.firstPlayer = "Red"
       THEN (IF MoveCount(m) % 2 = 0 THEN red ELSE yellow)
     ELSE IF m.firstPlayer = "Yellow"
       THEN (IF MoveCount(m) % 2 = 0 THEN yellow ELSE red)
     ELSE None

\* get isOurTurn()
IsOurTurn(m, occ) == WhoseTurn(m, occ) = OurPlayer

\* get gamePiece(): the color, or None where the getter throws
GamePiece(m, occ) ==
  IF Red(m, occ) = OurPlayer THEN "Red"
  ELSE IF Yellow(m, occ) = OurPlayer THEN "Yellow"
  ELSE None

\* Fault model: a scan from the top row downward
RECURSIVE ScanRowDown(_, _, _)
ScanRowDown(b, col, i) ==
  IF i > 5 THEN 0
  ELSE IF b[i][col] = None THEN i
  ELSE ScanRowDown(b, col, i + 1)

RowIndexFromTop(b, col) == ScanRowDown(b, col, 0)

\* makeMove's scan: the first empty row from the bottom, 0 if there is none
RECURSIVE ScanRow(_, _, _)
ScanRow(b, col, i) ==
  IF i < 0 THEN 0
  ELSE IF b[i][col] = None THEN i
  ELSE ScanRow(b, col, i - 1)

RowIndex(b, col) == ScanRow(b, col, 5)

\* ----------------------------------------------------------------- events
BoardChanged(b) == [type |-> "boardChanged", board |-> b]
TurnChanged(t) == [type |-> "turnChanged", isOurTurn |-> t]

StartGameCommand(gameID) == [type |-> "StartGame", gameID |-> gameID]
GameMoveCommand(gameID, row, col, piece) ==
  [type |-> "GameMove", gameID |-> gameID,
   move |-> [row |-> row, col |-> col, gamePiece |-> piece]]

\* ------------------------------------------------------------------- init
Init ==
  /\ model = NoGame
  /\ occupants = {}
  /\ instanceID = None
  /\ board = EmptyBoard
  /\ lastOp = "constructor"
  /\ arg = None
  /\ emitted = << >>
  /\ sent = << >>
  /\ err = None
  /\ observed = << >>
  /\ lastTurn = << >>

\* ---------------------------------------------------------------- actions
\* super._updateFrom(newModel), with the occupant list the area update carries
SuperUpdateFrom(newModel, newOccupants) ==
  /\ model' = newModel
  /\ occupants' = newOccupants
  /\ instanceID' = IF newModel.present THEN newModel.id ELSE None

\* the board _updateFrom holds after the update
UpdatedBoard(newModel, held) ==
  IF newModel.present /\ ~IsEqual(NewBoard(newModel.moves), held)
    THEN NewBoard(newModel.moves)
    ELSE held

\* Fault model: boardChanged emitted inside the loop, once per move
UpdateEventsPerMove(newModel, held, wasOurTurn, isOurTurn) ==
  (IF newModel.present /\ ~IsEqual(NewBoard(newModel.moves), held)
     THEN [i \in 1 .. Len(newModel.moves) |->
             [type |-> "boardChanged", board |-> NewBoard(newModel.moves)]]
     ELSE << >>)
  \o (IF wasOurTurn # isOurTurn
        THEN << [type |-> "turnChanged", isOurTurn |-> isOurTurn] >>
        ELSE << >>)

\* Fault model: turnChanged emitted before the board is compared
UpdateEventsTurnFirst(newModel, held, wasOurTurn, isOurTurn) ==
  (IF wasOurTurn # isOurTurn
     THEN << [type |-> "turnChanged", isOurTurn |-> isOurTurn] >>
     ELSE << >>)
  \o (IF newModel.present /\ ~IsEqual(NewBoard(newModel.moves), held)
        THEN << [type |-> "boardChanged", board |-> NewBoard(newModel.moves)] >>
        ELSE << >>)

\* Fault model: turnChanged emitted whenever it is our turn after the update
UpdateEventsWhenOurTurn(newModel, held, wasOurTurn, isOurTurn) ==
  (IF newModel.present /\ ~IsEqual(NewBoard(newModel.moves), held)
     THEN << [type |-> "boardChanged", board |-> NewBoard(newModel.moves)] >>
     ELSE << >>)
  \o (IF isOurTurn
        THEN << [type |-> "turnChanged", isOurTurn |-> isOurTurn] >>
        ELSE << >>)

\* the events _updateFrom emits, in order
UpdateEvents(newModel, held, wasOurTurn, isOurTurn) ==
  (IF newModel.present /\ ~IsEqual(NewBoard(newModel.moves), held)
     THEN << BoardChanged(NewBoard(newModel.moves)) >>
     ELSE << >>)
  \o (IF wasOurTurn # isOurTurn THEN << TurnChanged(isOurTurn) >> ELSE << >>)

\* What a listener called by emit reads from the controller's getters
View(m, occ, b) ==
  [status |-> Status(m), moveCount |-> MoveCount(m),
   isOurTurn |-> IsOurTurn(m, occ), board |-> b]

\* The payload of the last turnChanged among the events, else the one before
LastTurnChanged(events, before) ==
  LET tc == SelectSeq(events, LAMBDA e : e.type = "turnChanged")
  IN IF tc = << >> THEN before ELSE << tc[Len(tc)].isOurTurn >>

\* Fault model: _updateFrom reading "was it our turn" after super._updateFrom
ApplySnapshotLateCapture(newModel, newOccupants) ==
  LET wasOurTurn == IsOurTurn(newModel, newOccupants)
      isOurTurn == IsOurTurn(newModel, newOccupants)
  IN /\ SuperUpdateFrom(newModel, newOccupants)
     /\ board' = UpdatedBoard(newModel, board)
     /\ emitted' = UpdateEvents(newModel, board, wasOurTurn, isOurTurn)
     /\ observed' = [i \in DOMAIN emitted' |->
                       View(newModel, newOccupants, board')]
     /\ lastTurn' = LastTurnChanged(emitted', lastTurn)
     /\ sent' = << >>
     /\ err' = None
     /\ lastOp' = "applySnapshot"
     /\ arg' = None

\* _updateFrom(newModel): both emits run after super._updateFrom and after
\* the assignment of this._board
ApplySnapshot(newModel, newOccupants) ==
  LET wasOurTurn == IsOurTurn(model, occupants)
      isOurTurn == IsOurTurn(newModel, newOccupants)
  IN /\ SuperUpdateFrom(newModel, newOccupants)
     /\ board' = UpdatedBoard(newModel, board)
     /\ emitted' = UpdateEvents(newModel, board, wasOurTurn, isOurTurn)
     /\ observed' = [i \in DOMAIN emitted' |->
                       View(newModel, newOccupants, board')]
     /\ lastTurn' = LastTurnChanged(emitted', lastTurn)
     /\ sent' = << >>
     /\ err' = None
     /\ lastOp' = "applySnapshot"
     /\ arg' = None

\* Fault model: startGame accepting a game that is already in progress
StartGameErrorLax(m, id) ==
  IF Status(m) \notin {"WAITING_TO_START", "IN_PROGRESS"} \/ id = None
    THEN NO_GAME_STARTABLE
    ELSE None

\* the error startGame throws, or None
StartGameError(m, id) ==
  IF Status(m) # "WAITING_TO_START" \/ id = None
    THEN NO_GAME_STARTABLE
    ELSE None

\* startGame()
StartGame ==
  /\ lastOp' = "startGame"
  /\ arg' = None
  /\ err' = StartGameError(model, instanceID)
  /\ sent' = IF err' = None THEN << StartGameCommand(instanceID) >> ELSE << >>
  /\ emitted' = << >>
  /\ observed' = << >>
  /\ UNCHANGED <<model, occupants, instanceID, board, lastTurn>>

\* Fault model: makeMove without the column-full check
MakeMoveErrorNoFullCheck(m, occ, id, b, col) ==
  IF id = None \/ ~m.present \/ m.status # "IN_PROGRESS"
    THEN NO_GAME_IN_PROGRESS_ERROR
  ELSE IF GamePiece(m, occ) = None
    THEN PLAYER_NOT_IN_GAME_ERROR
  ELSE None

\* Fault model: makeMove reading gamePiece before the column-full check
MakeMoveErrorPieceFirst(m, occ, id, b, col) ==
  IF id = None \/ ~m.present \/ m.status # "IN_PROGRESS"
    THEN NO_GAME_IN_PROGRESS_ERROR
  ELSE IF GamePiece(m, occ) = None
    THEN PLAYER_NOT_IN_GAME_ERROR
  ELSE IF b[0][col] # None
    THEN COLUMN_FULL_MESSAGE
  ELSE None

\* Fault model: makeMove refusing a move when it is not our turn
MakeMoveErrorTurnChecked(m, occ, id, b, col) ==
  IF id = None \/ ~m.present \/ m.status # "IN_PROGRESS"
       \/ ~IsOurTurn(m, occ)
    THEN NO_GAME_IN_PROGRESS_ERROR
  ELSE IF b[0][col] # None
    THEN COLUMN_FULL_MESSAGE
  ELSE IF GamePiece(m, occ) = None
    THEN PLAYER_NOT_IN_GAME_ERROR
  ELSE None

\* Fault model: makeMove testing the bottom row for a full column
MakeMoveErrorBottomRow(m, occ, id, b, col) ==
  IF id = None \/ ~m.present \/ m.status # "IN_PROGRESS"
    THEN NO_GAME_IN_PROGRESS_ERROR
  ELSE IF b[5][col] # None
    THEN COLUMN_FULL_MESSAGE
  ELSE IF GamePiece(m, occ) = None
    THEN PLAYER_NOT_IN_GAME_ERROR
  ELSE None

\* Fault model: makeMove that does not look at the status
MakeMoveErrorNoStatus(m, occ, id, b, col) ==
  IF id = None
    THEN NO_GAME_IN_PROGRESS_ERROR
  ELSE IF b[0][col] # None
    THEN COLUMN_FULL_MESSAGE
  ELSE IF GamePiece(m, occ) = None
    THEN PLAYER_NOT_IN_GAME_ERROR
  ELSE None

\* the error makeMove throws, or None
MakeMoveError(m, occ, id, b, col) ==
  IF id = None \/ ~m.present \/ m.status # "IN_PROGRESS"
    THEN NO_GAME_IN_PROGRESS_ERROR
  ELSE IF b[0][col] # None
    THEN COLUMN_FULL_MESSAGE
  ELSE IF GamePiece(m, occ) = None
    THEN PLAYER_NOT_IN_GAME_ERROR
  ELSE None

\* Fault model: makeMove that also places the piece on the held board
MakeMoveOptimistic(col) ==
  LET e == MakeMoveError(model, occupants, instanceID, board, col)
      row == RowIndex(board, col)
      piece == GamePiece(model, occupants)
  IN /\ lastOp' = "makeMove"
     /\ arg' = col
     /\ err' = e
     /\ sent' = IF e = None
                  THEN << [type |-> "GameMove", gameID |-> instanceID,
                           move |-> [row |-> row, col |-> col,
                                     gamePiece |-> piece]] >>
                  ELSE << >>
     /\ board' = IF e = None THEN [board EXCEPT ![row][col] = piece] ELSE board
     /\ emitted' = << >>
     /\ observed' = << >>
     /\ UNCHANGED <<model, occupants, instanceID, lastTurn>>

\* makeMove(col)
MakeMove(col) ==
  /\ lastOp' = "makeMove"
  /\ arg' = col
  /\ err' = MakeMoveError(model, occupants, instanceID, board, col)
  /\ sent' = IF err' = None
               THEN << GameMoveCommand(instanceID, RowIndex(board, col), col,
                                       GamePiece(model, occupants)) >>
               ELSE << >>
  /\ emitted' = << >>
  /\ observed' = << >>
  /\ UNCHANGED <<model, occupants, instanceID, board, lastTurn>>

\* ------------------------------------------------------------ environment
\* Spec: snapshots arrive in the order the server emits them.  A new game
\* starts with an empty log, waiting to start or in progress, with the local
\* player red or yellow; a game in progress keeps its bindings and its log
\* only grows by one move.  All moves of one log fall in one column, at any
\* row and of any piece; both players are in the area and Red moves first.
AppendedLogs(log) ==
  IF Len(log) < MaxMoves
    THEN {Append(log, mv) :
            mv \in {x \in Moves : log = << >> \/ x.col = log[1].col}}
    ELSE {}

NewGames ==
  {Game("g1", st, s[1], s[2], "Red", << >>) :
     st \in {"WAITING_TO_START", "IN_PROGRESS"},
     s \in {<<OurPlayer, OtherPlayer>>, <<OtherPlayer, OurPlayer>>}}

BoardModels(m) ==
  {NoGame} \cup NewGames \cup
  (IF m.present
     THEN {Game(m.id, "IN_PROGRESS", m.red, m.yellow, m.firstPlayer, l) :
             l \in {m.moves} \cup AppendedLogs(m.moves)}
     ELSE {})

Next ==
  \/ \E m \in BoardModels(model) : ApplySnapshot(m, PlayerIDs)
  \/ StartGame
  \/ \E col \in Cols : MakeMove(col)

Spec == Init /\ [][Next]_vars

\* SpecTurn: any snapshot of TurnSnapshots may follow any other.  The log is
\* the first n moves of a drop-style game (bottom row, columns left to right,
\* pieces alternating); status, firstPlayer, the color bindings and the
\* occupants vary freely.
TurnLog(n) ==
  [i \in 1 .. n |->
     [row |-> 5, col |-> (i - 1) % CONNECT_FOUR_COLS,
      gamePiece |-> IF i % 2 = 1 THEN "Red" ELSE "Yellow"]]

\* red, yellow and the occupants of the snapshots of SpecTurn
TurnSeats ==
  { [red |-> OurPlayer, yellow |-> OtherPlayer, occupants |-> PlayerIDs],
    [red |-> OtherPlayer, yellow |-> OurPlayer, occupants |-> PlayerIDs],
    [red |-> OurPlayer, yellow |-> None, occupants |-> PlayerIDs],
    [red |-> None, yellow |-> OurPlayer, occupants |-> PlayerIDs],
    [red |-> OurPlayer, yellow |-> OtherPlayer, occupants |-> {OurPlayer}],
    [red |-> OurPlayer, yellow |-> OtherPlayer, occupants |-> {OtherPlayer}] }

TurnSnapshots ==
  { [model |-> NoGame, occupants |-> occ] :
      occ \in {PlayerIDs, {OurPlayer}, {}} }
  \cup
  { [model |-> Game("g1", st, s.red, s.yellow, fp, TurnLog(n)),
     occupants |-> s.occupants] :
      st \in GameStatus, s \in TurnSeats,
      fp \in ConnectFourColor \cup {None}, n \in 0 .. MaxTurnMoves }

NextTurn ==
  \/ \E s \in TurnSnapshots : ApplySnapshot(s.model, s.occupants)
  \/ StartGame
  \/ \E col \in Cols : MakeMove(col)

SpecTurn == Init /\ [][NextTurn]_vars

\* SpecColumn: a drop-style game in which every piece is dropped into the
\* same column, so that the column fills up to its top row.  The local
\* player is red, yellow or not seated; the game goes on or is over.  A
\* move past the top row lands on the bottom row again (the client does not
\* enforce the server's invariant that no cell appears twice).
DropMove(log, c) ==
  [row |-> (CONNECT_FOUR_ROWS - 1) - (Len(log) % CONNECT_FOUR_ROWS),
   col |-> c,
   gamePiece |-> IF Len(log) % 2 = 0 THEN "Red" ELSE "Yellow"]

DroppedLogs(log) ==
  IF Len(log) < MaxStack
    THEN {Append(log, DropMove(log, c)) :
            c \in {x \in Cols : log = << >> \/ x = log[1].col}}
    ELSE {}

ColumnNewGames ==
  {Game("g1", "IN_PROGRESS", s[1], s[2], "Red", << >>) :
     s \in {<<OurPlayer, OtherPlayer>>, <<OtherPlayer, OurPlayer>>,
            <<OtherPlayer, None>>}}

ColumnModels(m) ==
  {NoGame} \cup ColumnNewGames \cup
  (IF m.present
     THEN {Game(m.id, st, m.red, m.yellow, m.firstPlayer, l) :
             st \in {"IN_PROGRESS", "OVER"},
             l \in {m.moves} \cup DroppedLogs(m.moves)}
     ELSE {})

NextColumn ==
  \/ \E m \in ColumnModels(model) : ApplySnapshot(m, PlayerIDs)
  \/ StartGame
  \/ \E col \in Cols : MakeMove(col)

SpecColumn == Init /\ [][NextColumn]_vars

\* ----------------------------------------------------------------- claims
\* The piece the last move of the log on cell (r, c) put there, None if the
\* log has no move on that cell.
LastPieceAt(log, r, c) ==
  LET on == {i \in 1 .. Len(log) : log[i].row = r /\ log[i].col = c}
  IN IF on = {} THEN None
     ELSE log[CHOOSE i \in on : \A k \in on : k <= i].gamePiece

Rebuild(log) == [r \in Rows |-> [c \in Cols |-> LastPieceAt(log, r, c)]]

\* The events of one type among those an operation emitted, in order.
EventsOfType(events, t) == SelectSeq(events, LAMBDA e : e.type = t)

BothBound ==
  /\ model.present
  /\ model.red # None /\ model.red \in occupants
  /\ model.yellow # None /\ model.yellow \in occupants

\* C1: in every reachable state the held board is the rebuild of the move log
\* of the snapshot applied last, a snapshot without a game counting as an
\* empty log.
C1_BoardIsRebuildOfLastLog ==
  board = Rebuild(IF model.present THEN model.moves ELSE << >>)

\* C2: applying a snapshot that carries a game emits boardChanged, once and
\* carrying the rebuilt board, which becomes the held board, exactly when the
\* rebuilt board differs in some cell from the board held before; otherwise
\* the held board stays and no boardChanged is emitted.
C2_BoardChangedIffRebuiltDiffers ==
  [][(lastOp' = "applySnapshot" /\ model'.present) =>
       LET rebuilt == Rebuild(model'.moves)
           differs == \E r \in Rows, c \in Cols : rebuilt[r][c] # board[r][c]
           bc == EventsOfType(emitted', "boardChanged")
       IN IF differs
            THEN board' = rebuilt /\ Len(bc) = 1 /\ bc[1].board = rebuilt
            ELSE board' = board /\ bc = << >>]_vars

C2_Witness ==
  /\ lastOp = "applySnapshot"
  /\ model.present
  /\ Len(model.moves) = 2
  /\ EventsOfType(emitted, "boardChanged") = << BoardChanged(board) >>
  /\ board[0][6] # None

\* C3: applying a snapshot emits turnChanged, once and carrying the new
\* isOurTurn, exactly when isOurTurn of the state after the update differs
\* from isOurTurn of the state before it.
C3_TurnChangedIffTurnDiffers ==
  [][lastOp' = "applySnapshot" =>
       LET was == IsOurTurn(model, occupants)
           now == IsOurTurn(model', occupants')
       IN EventsOfType(emitted', "turnChanged")
            = IF was # now THEN << TurnChanged(now) >> ELSE << >>]_vars

C3_Witness ==
  /\ lastOp = "applySnapshot"
  /\ EventsOfType(emitted, "turnChanged") = << TurnChanged(FALSE) >>
  /\ model.present /\ model.status = "IN_PROGRESS"

\* C4: with both colors bound to occupants and the game in progress,
\* whoseTurn is the first player's color on even move counts and the other
\* color on odd ones.
C4_TurnAlternatesByParity ==
  (BothBound /\ model.status = "IN_PROGRESS") =>
    /\ model.firstPlayer = "Red" =>
         WhoseTurn(model, occupants)
           = IF Len(model.moves) % 2 = 0 THEN model.red ELSE model.yellow
    /\ model.firstPlayer = "Yellow" =>
         WhoseTurn(model, occupants)
           = IF Len(model.moves) % 2 = 0 THEN model.yellow ELSE model.red

C4_Witness ==
  /\ BothBound /\ model.status = "IN_PROGRESS"
  /\ model.firstPlayer = "Yellow"
  /\ Len(model.moves) = 3
  /\ WhoseTurn(model, occupants) = model.red
  /\ model.red = OtherPlayer

\* C5: whoseTurn is absent, and isOurTurn false, whenever a color has no
\* identifier or its identifier matches no occupant, or the status is not
\* IN_PROGRESS.
C5_NoTurnWithoutBindingsOrProgress ==
  (~BothBound \/ Status(model) # "IN_PROGRESS") =>
    /\ WhoseTurn(model, occupants) = None
    /\ ~IsOurTurn(model, occupants)

C5_Witness ==
  /\ model.present /\ model.status = "IN_PROGRESS"
  /\ model.red = OurPlayer /\ OurPlayer \notin occupants
  /\ model.yellow \in occupants
  /\ model.firstPlayer = "Red" /\ Len(model.moves) = 2
  /\ WhoseTurn(model, occupants) = None

\* C6: makeMove(col) with a known instance, status IN_PROGRESS and row 0 of
\* column col occupied fails with the column-full error and sends nothing.
C6_FullColumnRejected ==
  [][(/\ lastOp' = "makeMove"
      /\ instanceID # None
      /\ Status(model) = "IN_PROGRESS"
      /\ board[0][arg'] # None)
       => (err' = COLUMN_FULL_MESSAGE /\ sent' = << >>)]_vars

C6_Witness ==
  /\ lastOp = "makeMove"
  /\ arg = 6
  /\ board[0][6] # None /\ board[5][6] = None
  /\ err = COLUMN_FULL_MESSAGE
  /\ sent = << >>

\* C7: makeMove(col) with no known instance or a status other than
\* IN_PROGRESS fails with the no-game-in-progress error and sends nothing.
C7_NoGameInProgressRejected ==
  [][(/\ lastOp' = "makeMove"
      /\ (instanceID = None \/ Status(model) # "IN_PROGRESS"))
       => (err' = NO_GAME_IN_PROGRESS_ERROR /\ sent' = << >>)]_vars

C7_Witness ==
  /\ lastOp = "makeMove"
  /\ model.present /\ model.status = "OVER" /\ instanceID # None
  /\ err = NO_GAME_IN_PROGRESS_ERROR
  /\ sent = << >>

\* C8: startGame sends one StartGame command for the current instance exactly
\* when the status is WAITING_TO_START and an instance is known; otherwise it
\* fails with the not-startable error and sends nothing.
C8_StartGameOnlyWhenWaitingToStart ==
  [][lastOp' = "startGame" =>
       IF Status(model) = "WAITING_TO_START" /\ instanceID # None
         THEN /\ err' = None
              /\ sent' = << [type |-> "StartGame", gameID |-> instanceID] >>
         ELSE /\ err' = NO_GAME_STARTABLE
              /\ sent' = << >>]_vars

C8_Witness ==
  /\ lastOp = "startGame"
  /\ err = None
  /\ Len(sent) = 1 /\ sent[1].type = "StartGame" /\ sent[1].gameID = "g1"

\* C9: a successful makeMove(col) sends one GameMove command for the current
\* instance whose col is the argument, whose gamePiece is the local player's
\* color and whose row is the largest index of an empty cell of that column.
C9_MoveTargetsLowestEmptyRow ==
  [][(lastOp' = "makeMove" /\ err' = None) =>
       /\ Len(sent') = 1
       /\ sent'[1].type = "GameMove"
       /\ sent'[1].gameID = instanceID
       /\ sent'[1].move.col = arg'
       /\ sent'[1].move.gamePiece
            = (IF model.red = OurPlayer THEN "Red" ELSE "Yellow")
       /\ OurPlayer \in {model.red, model.yellow}
       /\ board[sent'[1].move.row][arg'] = None
       /\ \A r \in Rows : r > sent'[1].move.row => board[r][arg'] # None]_vars

C9_Witness ==
  /\ lastOp = "makeMove"
  /\ err = None
  /\ Len(sent) = 1
  /\ sent[1].move.row = 3
  /\ sent[1].move.gamePiece = "Yellow"
  /\ board[5][arg] # None /\ board[4][arg] # None

\* C10: neither startGame nor makeMove changes the held snapshot, the held
\* board, status, moveCount or isOurTurn, nor emits an event; after a
\* successful makeMove the targeted cell of the board is still empty.
C10_CommandsLeaveStateAlone ==
  [][lastOp' \in {"startGame", "makeMove"} =>
       /\ model' = model
       /\ board' = board
       /\ Status(model') = Status(model)
       /\ MoveCount(model') = MoveCount(model)
       /\ IsOurTurn(model', occupants') = IsOurTurn(model, occupants)
       /\ emitted' = << >>
       /\ (lastOp' = "makeMove" /\ err' = None) =>
            board'[sent'[1].move.row][sent'[1].move.col] = None]_vars

C10_Witness ==
  /\ lastOp = "makeMove"
  /\ err = None
  /\ Len(sent) = 1
  /\ sent[1].move.row = 4
  /\ board[sent[1].move.row][sent[1].move.col] = None
  /\ board[5][sent[1].move.col] # None

\* C11: applying a snapshot that carries a game with the same move log as
\* the snapshot applied before it emits no boardChanged, whatever else of
\* the snapshot changed.
C11_SameLogNoBoardChanged ==
  [][(/\ lastOp' = "applySnapshot"
      /\ model.present /\ model'.present
      /\ model'.moves = model.moves)
       => (EventsOfType(emitted', "boardChanged") = << >> /\ board' = board)]_vars

C11_Witness ==
  /\ lastOp = "applySnapshot"
  /\ model.present /\ Len(model.moves) = 2
  /\ board = Rebuild(model.moves)
  /\ emitted = << TurnChanged(TRUE) >>

\* The snapshot applied in this step carries the log of the snapshot applied
\* before it with exactly one move appended.
OneMoveAppended ==
  /\ lastOp' = "applySnapshot"
  /\ model.present /\ model'.present
  /\ Len(model'.moves) = Len(model.moves) + 1
  /\ SubSeq(model'.moves, 1, Len(model.moves)) = model.moves

\* The board with the cell of a move set to the move's piece.
WithMove(b, mv) == [b EXCEPT ![mv.row][mv.col] = mv.gamePiece]

\* C12 as stated: a snapshot whose log is the previous log with one move
\* appended (any row, column and piece) emits boardChanged once, carrying the
\* board held before with that move's cell set to its piece.
C12_Original ==
  [][OneMoveAppended =>
       EventsOfType(emitted', "boardChanged")
         = << BoardChanged(WithMove(board, model'.moves[Len(model'.moves)])) >>]_vars

\* C12 as amended: the same, provided the move's cell does not already hold
\* the move's piece on the board held before; if it does, no boardChanged is
\* emitted and the held board stays.
C12_OneNewMoveChangesOneCell ==
  [][OneMoveAppended =>
       LET mv == model'.moves[Len(model'.moves)]
           bc == EventsOfType(emitted', "boardChanged")
       IN IF board[mv.row][mv.col] # mv.gamePiece
            THEN /\ bc = << BoardChanged(WithMove(board, mv)) >>
                 /\ board' = WithMove(board, mv)
            ELSE /\ bc = << >>
                 /\ board' = board]_vars

C12_Witness ==
  /\ lastOp = "applySnapshot"
  /\ model.present /\ Len(model.moves) = 2
  /\ model.moves[1].row = model.moves[2].row
  /\ model.moves[1].gamePiece # model.moves[2].gamePiece
  /\ EventsOfType(emitted, "boardChanged") = << BoardChanged(board) >>
  /\ board[model.moves[2].row][model.moves[2].col] = model.moves[2].gamePiece

\* C13: status is WAITING_FOR_PLAYERS when the snapshot applied last has no
\* game and that snapshot's status field otherwise, and only applySnapshot
\* ever changes it.
C13_StatusReadsLastSnapshot ==
  [][/\ Status(model')
          = (IF model'.present THEN model'.status ELSE "WAITING_FOR_PLAYERS")
     /\ lastOp' # "applySnapshot" => Status(model') = Status(model)]_vars

C13_Witness ==
  /\ lastOp \in {"startGame", "makeMove"}
  /\ model.present /\ model.status = "OVER"
  /\ Status(model) = "OVER"

\* C14: applying a snapshot raises no error; with the game in progress, both
\* colors bound and firstPlayer neither Red nor Yellow, or with a color
\* binding missing, whoseTurn is absent and isOurTurn is false.
C14_MalformedSnapshotDegrades ==
  /\ lastOp = "applySnapshot" => err = None
  /\ (/\ model.present
      /\ \/ model.red = None
         \/ model.yellow = None
         \/ (/\ BothBound
             /\ model.status = "IN_PROGRESS"
             /\ model.firstPlayer \notin ConnectFourColor))
       => (WhoseTurn(model, occupants) = None /\ ~IsOurTurn(model, occupants))

C14_Witness ==
  /\ lastOp = "applySnapshot"
  /\ err = None
  /\ BothBound /\ model.status = "IN_PROGRESS"
  /\ model.firstPlayer = None
  /\ WhoseTurn(model, occupants) = None

\* C15: no applySnapshot emits boardChanged or turnChanged more than once;
\* the four outcomes (neither, boardChanged only, turnChanged only, both)
\* are the reachable states C15_Neither, C15_Witness, C15_TurnOnly, C15_Both.
C15_EachEventAtMostOnce ==
  /\ Len(EventsOfType(emitted, "boardChanged")) <= 1
  /\ Len(EventsOfType(emitted, "turnChanged")) <= 1
  /\ Len(emitted)
       = Len(EventsOfType(emitted, "boardChanged"))
           + Len(EventsOfType(emitted, "turnChanged"))

C15_Witness ==
  /\ lastOp = "applySnapshot"
  /\ BothBound /\ model.status = "IN_PROGRESS"
  /\ IsOurTurn(model, occupants)
  /\ Len(emitted) = 1 /\ emitted[1].type = "boardChanged"

C15_Neither ==
  /\ lastOp = "applySnapshot"
  /\ BothBound /\ model.status = "IN_PROGRESS"
  /\ IsOurTurn(model, occupants)
  /\ emitted = << >>

C15_TurnOnly ==
  /\ lastOp = "applySnapshot"
  /\ Len(emitted) = 1 /\ emitted[1].type = "turnChanged"

C15_Both ==
  /\ lastOp = "applySnapshot"
  /\ Len(emitted) = 2
  /\ emitted[1].type # emitted[2].type

\* C16: every GameMove command makeMove sends targets a cell that is empty
\* on the held board.
C16_SentCellIsEmpty ==
  [][(lastOp' = "makeMove" /\ sent' # << >>) =>
       /\ board[0][sent'[1].move.col] = None
       /\ board[sent'[1].move.row][sent'[1].move.col] = None]_vars

C16_Witness ==
  /\ lastOp = "makeMove"
  /\ Len(sent) = 1
  /\ sent[1].move.row = 0
  /\ board[0][arg] = None
  /\ \A r \in Rows \ {0} : board[r][arg] # None

\* The local player is bound to neither color.
NotSeated(m, occ) ==
  /\ ~(m.present /\ m.red = OurPlayer /\ OurPlayer \in occ)
  /\ ~(m.present /\ m.yellow = OurPlayer /\ OurPlayer \in occ)

\* C17: makeMove reports the first violated precondition, in the order
\* no-game-in-progress, column-full, not-in-game, and sends nothing when it
\* fails.
C17_FirstViolatedPrecondition ==
  [][lastOp' = "makeMove" =>
       /\ err' = (IF instanceID = None \/ Status(model) # "IN_PROGRESS"
                    THEN NO_GAME_IN_PROGRESS_ERROR
                  ELSE IF board[0][arg'] # None
                    THEN COLUMN_FULL_MESSAGE
                  ELSE IF NotSeated(model, occupants)
                    THEN PLAYER_NOT_IN_GAME_ERROR
                  ELSE None)
       /\ err' # None => sent' = << >>]_vars

C17_Witness ==
  /\ lastOp = "makeMove"
  /\ model.present /\ model.status = "IN_PROGRESS"
  /\ NotSeated(model, occupants)
  /\ board[0][arg] = None /\ board[5][arg] # None
  /\ err = PLAYER_NOT_IN_GAME_ERROR
  /\ sent = << >>

\* C18: when one applySnapshot emits both events, boardChanged comes first;
\* at each emission a listener reads the status, moveCount, isOurTurn and
\* board of the new snapshot, and boardChanged carries the held board.
C18_BoardChangedFirstOnNewState ==
  lastOp = "applySnapshot" =>
    /\ Len(observed) = Len(emitted)
    /\ \A i \in DOMAIN emitted :
         /\ observed[i].status = Status(model)
         /\ observed[i].moveCount = MoveCount(model)
         /\ observed[i].isOurTurn = IsOurTurn(model, occupants)
         /\ observed[i].board = board
         /\ emitted[i].type = "boardChanged" => emitted[i].board = board
    /\ (/\ EventsOfType(emitted, "boardChanged") # << >>
        /\ EventsOfType(emitted, "turnChanged") # << >>)
         => (emitted[1].type = "boardChanged"
               /\ emitted[Len(emitted)].type = "turnChanged")

C18_Witness ==
  /\ lastOp = "applySnapshot"
  /\ Len(emitted) = 2
  /\ emitted[1].type = "boardChanged"
  /\ emitted[2] = TurnChanged(TRUE)
  /\ observed[1].isOurTurn = TRUE
  /\ observed[1].moveCount = 2

\* C19: makeMove succeeds whenever a game is in progress, the column is not
\* full and the local player is seated, whether or not it is our turn; a
\* second makeMove(col) with no snapshot applied in between ends as the
\* first did and sends the same command.
C19_MoveIgnoresTurnAndHistory ==
  [][lastOp' = "makeMove" =>
       /\ (/\ instanceID # None /\ Status(model) = "IN_PROGRESS"
           /\ board[0][arg'] = None
           /\ ~NotSeated(model, occupants))
            => (err' = None /\ Len(sent') = 1)
       /\ (lastOp = "makeMove" /\ arg = arg')
            => (err' = err /\ sent' = sent)]_vars

C19_Witness ==
  /\ lastOp = "makeMove"
  /\ err = None
  /\ Len(sent) = 1
  /\ ~IsOurTurn(model, occupants)
  /\ WhoseTurn(model, occupants) = OtherPlayer

\* C20: the payload of the turnChanged emitted last equals isOurTurn, which
\* is false while none has been emitted; successive turnChanged events
\* carry alternating values, the first being true.
C20_LastTurnChangedIsCurrentTurn ==
  [][/\ IsOurTurn(model', occupants') = (lastTurn' = << TRUE >>)
     /\ \A i \in DOMAIN emitted' :
          emitted'[i].type = "turnChanged" =>
            emitted'[i].isOurTurn = (lastTurn # << TRUE >>)]_vars

C20_Witness ==
  /\ lastOp = "applySnapshot"
  /\ lastTurn = << FALSE >>
  /\ EventsOfType(emitted, "turnChanged") = << TurnChanged(FALSE) >>
  /\ ~IsOurTurn(model, occupants)
  /\ OurPlayer \notin occupants

====
